---- MODULE Spec2Model ----
(***************************************************************************)
(* Model of mcomix/keybindings.py: the _KeybindingManager registry, its    *)
(* three dictionaries, the keybindings file and the module-level singleton *)
(* accessor.                                                               *)
(***************************************************************************)
EXTENDS Integers, Sequences, FiniteSets, TLC

VARIABLES
    _manager,             \* the module global: FALSE for None, TRUE once constructed
    action_to_callback,   \* self._action_to_callback: action name -> callback
    action_to_bindings,   \* self._action_to_bindings: action name -> list of bindings
    binding_to_action,    \* self._binding_to_action: binding -> action name
    disk,                 \* the file at constants.KEYBINDINGS_CONF_PATH
    last,                 \* the call made by the last step and how it ended
    calls                 \* how many calls the manager has received

vars == <<_manager, action_to_callback, action_to_bindings, binding_to_action, disk, last, calls>>

(***************************************************************************)
(* Bounds of the model.                                                    *)
(***************************************************************************)
\* number of key-combination strings in the initial keybindings file
MaxDocBindings == 2
\* longest list of default bindings passed to register
MaxDefaults == 2
\* number of calls made on the manager in one run
MaxCalls == 2

(***************************************************************************)
(* The catalog, names, strings and callbacks the calls are drawn from.     *)
(***************************************************************************)
\* a part of the catalog; the source has 39 entries
BINDING_INFO == {"zoom in", "zoom out"}

\* names a caller may pass: the catalog and one name outside it
ActionNames == BINDING_INFO \cup {"nonexistent action"}

\* key-combination strings callers and the file use: one is not the canonical
\* spelling of its binding, and one does not parse
BindingStrings == {"a", "<Ctrl>a", "<Shift><Control>a", "bogus"}

Callbacks == {"cb1", "cb2"}

\* Python's None, where an action name is expected
None == "None"

\* gtk.accelerator_parse: (keyval, modifiers); (0, 0) when the string does not parse
accelerator_parse(s) ==
    CASE s = "a" -> <<97, 0>>
      [] s = "<Control>a" -> <<97, 4>>
      [] s = "<Ctrl>a" -> <<97, 4>>
      [] s = "<Shift><Control>a" -> <<97, 5>>
      [] OTHER -> <<0, 0>>

\* the string of a binding as it would be if the label shown to the user
\* (gtk.accelerator_get_label) were stored instead of the accelerator's name
accelerator_name_Label(b) ==
    CASE b = <<97, 0>> -> "A"
      [] b = <<97, 4>> -> "Ctrl+A"
      [] b = <<97, 5>> -> "Shift+Ctrl+A"
      [] OTHER -> ""

\* gtk.accelerator_name: the canonical string of a binding
accelerator_name(b) ==
    CASE b = <<97, 0>> -> "a"
      [] b = <<97, 4>> -> "<Control>a"
      [] b = <<97, 5>> -> "<Shift><Control>a"
      [] OTHER -> ""

(***************************************************************************)
(* Python dict and list operations.                                        *)
(***************************************************************************)
EmptyDict == [k \in {} |-> k]

\* d[k] = v
DictSet(d, k, v) == [x \in DOMAIN d \cup {k} |-> IF x = k THEN v ELSE d[x]]

\* d.pop(k), for k in d
DictPop(d, k) == [x \in DOMAIN d \ {k} |-> d[x]]

\* d.get(k)
DictGet(d, k) == IF k \in DOMAIN d THEN d[k] ELSE None

\* x in l
Contains(l, x) == \E i \in 1..Len(l) : l[i] = x

\* l.index(x), for x in l; positions count from 1 here
ListIndex(l, x) == CHOOSE i \in 1..Len(l) : l[i] = x /\ \A j \in 1..(i - 1) : l[j] # x

\* l.pop(idx)
ListPop(l, idx) == SubSeq(l, 1, idx - 1) \o SubSeq(l, idx + 1, Len(l))

\* l.insert(idx, x)
ListInsert(l, idx, x) == SubSeq(l, 1, idx - 1) \o <<x>> \o SubSeq(l, idx, Len(l))

\* l.remove(x), for x in l: removes the first occurrence
ListRemove(l, x) == ListPop(l, ListIndex(l, x))

\* self._action_to_bindings[name] on the defaultdict(list): a missing key is inserted
DefaultDictTouch(d, name) == IF name \in DOMAIN d THEN d ELSE DictSet(d, name, <<>>)

\* all sequences over S of length at most n
SeqsUpTo(S, n) == UNION {[1..k -> S] : k \in 0..n}

\* all orders in which a dict can iterate over the keys S
Orders(S) == {o \in [1..Cardinality(S) -> S] : \A i, j \in 1..Cardinality(S) : i # j => o[i] # o[j]}

(***************************************************************************)
(* The keybindings file.                                                   *)
(***************************************************************************)
RECURSIVE SumLens(_, _)
SumLens(doc, names) ==
    IF names = {} THEN 0
    ELSE LET n == CHOOSE x \in names : TRUE
         IN  Len(doc[n]) + SumLens(doc, names \ {n})

\* a file that is missing or is not JSON
Unreadable == [readable |-> FALSE, top |-> "none", doc |-> EmptyDict]

\* files json.load accepts whose value is not an object: an array, and a
\* number (which stands for true, false and null as well)
NotObjects ==
    {[readable |-> TRUE, top |-> t, doc |-> EmptyDict] : t \in {"array", "number"}}

\* the files json.load accepts as an object: action name -> list of strings
\* an entry for a name outside the catalog is never read, so one value stands for all
Documents ==
    {[readable |-> TRUE, top |-> "object", doc |-> d] :
        d \in {dd \in UNION {[D -> SeqsUpTo(BindingStrings, MaxDocBindings)] : D \in SUBSET ActionNames} :
                  /\ SumLens(dd, DOMAIN dd \cap BINDING_INFO) <= MaxDocBindings
                  /\ \A n \in DOMAIN dd \ BINDING_INFO : dd[n] = <<"a">>}}

\* save, lines 196-202: the names of every binding of every key of the defaultdict
Serialize(a2b) ==
    [a \in DOMAIN a2b |-> [i \in 1..Len(a2b[a]) |-> accelerator_name(a2b[a][i])]]

\* save, lines 203-205
save(st) == [st EXCEPT !.disk = [readable |-> TRUE, top |-> "object", doc |-> Serialize(st.a2b)]]

(***************************************************************************)
(* _initialize                                                             *)
(***************************************************************************)
\* lines 219-221
ParseAll(strs) == [i \in 1..Len(strs) |-> accelerator_parse(strs[i])]

\* lines 223-224
RECURSIVE InstallAll(_, _, _, _)
InstallAll(b2a, bindings, i, action) ==
    IF i > Len(bindings) THEN b2a
    ELSE InstallAll(DictSet(b2a, bindings[i], action), bindings, i + 1, action)

\* lines 217-226, over the catalog in the dict's iteration order
RECURSIVE InitializeLoop(_, _, _, _)
InitializeLoop(st, stored, order, i) ==
    IF i > Len(order) THEN st
    ELSE LET action == order[i]
         IN  IF action \in DOMAIN stored
             THEN LET bindings == ParseAll(stored[action])
                  IN  InitializeLoop(
                          [st EXCEPT !.a2b = DictSet(st.a2b, action, bindings),
                                     !.b2a = InstallAll(st.b2a, bindings, 1, action)],
                          stored, order, i + 1)
             ELSE InitializeLoop([st EXCEPT !.a2b = DictSet(st.a2b, action, <<>>)],
                                 stored, order, i + 1)

\* lines 209-215: an unreadable file is an empty mapping; line 218 finds no
\* action name in an array, which then reads as an empty mapping too
StoredActionBindings(file) ==
    IF file.readable /\ file.top = "object" THEN file.doc ELSE EmptyDict

\* the object __init__ hands to _initialize, lines 84-86
Constructed(file) ==
    [a2c |-> EmptyDict, a2b |-> EmptyDict, b2a |-> EmptyDict, disk |-> file]

\* __init__ and _initialize: line 218 tests "action in stored_action_bindings"
\* outside the try block, and on a number that test raises TypeError
_initialize(file, order) ==
    IF file.readable /\ file.top = "number"
    THEN [st |-> Constructed(file), outcome |-> "TypeError", ret |-> "None", path |-> "loop"]
    ELSE [st |-> InitializeLoop(Constructed(file), StoredActionBindings(file), order, 1),
          outcome |-> "ok", ret |-> "None",
          path |-> IF file.readable THEN "stored" ELSE "fallback"]

(***************************************************************************)
(* register                                                                *)
(***************************************************************************)
\* what a call hands back: the state it leaves, how it ended, what it returned,
\* and the branch of the code it took
Result(st, outcome, ret, path) ==
    [st |-> st, outcome |-> outcome, ret |-> ret, path |-> path]

\* the loop as it would be if a binding owned by another action were recorded
\* in the list of name all the same
RECURSIVE RegisterLoop_RecordsShadowed(_, _, _, _)
RegisterLoop_RecordsShadowed(st, keycodes, i, name) ==
    IF i > Len(keycodes) THEN st
    ELSE LET keycode == keycodes[i]
         IN  IF keycode \in DOMAIN st.b2a
             THEN RegisterLoop_RecordsShadowed(
                      IF st.b2a[keycode] # name
                      THEN [st EXCEPT !.a2b = DictSet(st.a2b, name, Append(st.a2b[name], keycode))]
                      ELSE st,
                      keycodes, i + 1, name)
             ELSE RegisterLoop_RecordsShadowed(
                      [st EXCEPT !.b2a = DictSet(st.b2a, keycode, name),
                                 !.a2b = DictSet(st.a2b, name, Append(st.a2b[name], keycode))],
                      keycodes, i + 1, name)

\* lines 108-116: a binding that has an owner is left alone, the others are installed.
\* When keycodes is the stored list itself, the loop also walks over what it
\* appends; those bindings have an owner by then and are left alone.
RECURSIVE RegisterLoop(_, _, _, _)
RegisterLoop(st, keycodes, i, name) ==
    IF i > Len(keycodes) THEN st
    ELSE LET keycode == keycodes[i]
         IN  IF keycode \in DOMAIN st.b2a
             THEN RegisterLoop(st, keycodes, i + 1, name)
             ELSE RegisterLoop(
                      [st EXCEPT !.b2a = DictSet(st.b2a, keycode, name),
                                 !.a2b = DictSet(st.a2b, name, Append(st.a2b[name], keycode))],
                      keycodes, i + 1, name)

\* lines 103-106: the stored list, or the parsed defaults when it is empty
RegisterKeycodes(st, name, bindings) ==
    IF st.a2b[name] = <<>> THEN ParseAll(bindings) ELSE st.a2b[name]

\* lines 109-113: the loop meets a binding that another action owns and logs it
RegisterWarns(st, keycodes, name) ==
    \E i \in 1..Len(keycodes) :
        keycodes[i] \in DOMAIN st.b2a /\ st.b2a[keycodes[i]] # name

\* register as it would be if it stored the keybindings when it is done
register_Saves(st, name, bindings, callback) ==
    IF name \notin BINDING_INFO THEN Result(st, "AssertionError", None, "assert")
    ELSE LET s0 == [st EXCEPT !.a2b = DefaultDictTouch(st.a2b, name)]
             keycodes == RegisterKeycodes(s0, name, bindings)
             s1 == RegisterLoop(s0, keycodes, 1, name)
         IN  Result(save([s1 EXCEPT !.a2c = DictSet(s1.a2c, name, callback)]), "ok", None,
                    IF s0.a2b[name] = <<>> THEN "defaults" ELSE "stored")

\* lines 100-118
register(st, name, bindings, callback) ==
    IF name \notin BINDING_INFO THEN Result(st, "AssertionError", None, "assert")
    ELSE LET s0 == [st EXCEPT !.a2b = DefaultDictTouch(st.a2b, name)]
             keycodes == RegisterKeycodes(s0, name, bindings)
             s1 == RegisterLoop(s0, keycodes, 1, name)
         IN  Result([s1 EXCEPT !.a2c = DictSet(s1.a2c, name, callback)], "ok", None,
                    IF s0.a2b[name] = <<>>
                    THEN (IF RegisterWarns(s0, keycodes, name) THEN "defaults, warning" ELSE "defaults")
                    ELSE (IF RegisterWarns(s0, keycodes, name) THEN "stored, warning" ELSE "stored"))

(***************************************************************************)
(* edit_accel                                                              *)
(***************************************************************************)
\* lines 138-149 as they would be if the new binding were put in front of the list
EditReplace_Prepends(st, name, nb, old_binding, old_action_with_nb) ==
    IF old_binding # ""
    THEN LET ob == accelerator_parse(old_binding)
         IN  IF ob \notin DOMAIN st.b2a THEN Result(st, "KeyError", None, "replace")
             ELSE LET s1 == [st EXCEPT !.b2a = DictSet(DictPop(st.b2a, ob), nb, name),
                                       !.a2b = DefaultDictTouch(st.a2b, name)]
                  IN  IF ~Contains(s1.a2b[name], ob) THEN Result(s1, "ValueError", None, "replace")
                      ELSE LET idx == ListIndex(s1.a2b[name], ob)
                               l == <<nb>> \o ListPop(s1.a2b[name], idx)
                           IN  Result(save([s1 EXCEPT !.a2b = DictSet(s1.a2b, name, l)]),
                                      "ok", old_action_with_nb, "replace")
    ELSE LET s1 == [st EXCEPT !.b2a = DictSet(st.b2a, nb, name),
                              !.a2b = DefaultDictTouch(st.a2b, name)]
         IN  Result(save([s1 EXCEPT !.a2b = DictSet(s1.a2b, name, <<nb>> \o s1.a2b[name])]),
                    "ok", old_action_with_nb, "add")

\* lines 138-149, after new_binding's previous owner has been detached
EditReplace(st, name, nb, old_binding, old_action_with_nb) ==
    IF old_binding # ""
    THEN LET ob == accelerator_parse(old_binding)
         IN  IF ob \notin DOMAIN st.b2a THEN Result(st, "KeyError", None, "replace")
             ELSE LET s1 == [st EXCEPT !.b2a = DictSet(DictPop(st.b2a, ob), nb, name),
                                       !.a2b = DefaultDictTouch(st.a2b, name)]
                  IN  IF ~Contains(s1.a2b[name], ob) THEN Result(s1, "ValueError", None, "replace")
                      ELSE LET idx == ListIndex(s1.a2b[name], ob)
                               l == ListInsert(ListPop(s1.a2b[name], idx), idx, nb)
                           IN  Result(save([s1 EXCEPT !.a2b = DictSet(s1.a2b, name, l)]),
                                      "ok", old_action_with_nb, "replace")
    ELSE LET s1 == [st EXCEPT !.b2a = DictSet(st.b2a, nb, name),
                              !.a2b = DefaultDictTouch(st.a2b, name)]
         IN  Result(save([s1 EXCEPT !.a2b = DictSet(s1.a2b, name, Append(s1.a2b[name], nb))]),
                    "ok", old_action_with_nb, "add")

\* edit_accel as it would be if the new binding stayed in the list of its
\* previous owner
edit_accel_KeepsOwnerList(st, name, new_binding, old_binding) ==
    IF name \notin BINDING_INFO THEN Result(st, "AssertionError", None, "assert")
    ELSE LET nb == accelerator_parse(new_binding)
             old_action_with_nb == DictGet(st.b2a, nb)
         IN  IF old_action_with_nb # None
             THEN EditReplace([st EXCEPT !.b2a = DictPop(st.b2a, nb)],
                              name, nb, old_binding, old_action_with_nb)
             ELSE EditReplace(st, name, nb, old_binding, old_action_with_nb)

\* lines 129-152
edit_accel(st, name, new_binding, old_binding) ==
    IF name \notin BINDING_INFO THEN Result(st, "AssertionError", None, "assert")
    ELSE LET nb == accelerator_parse(new_binding)
             old_action_with_nb == DictGet(st.b2a, nb)
         IN  IF old_action_with_nb # None
             THEN LET s1 == [st EXCEPT !.b2a = DictPop(st.b2a, nb),
                                       !.a2b = DefaultDictTouch(st.a2b, old_action_with_nb)]
                  IN  IF ~Contains(s1.a2b[old_action_with_nb], nb)
                      THEN Result(s1, "ValueError", None, "detach")
                      ELSE EditReplace(
                               [s1 EXCEPT !.a2b = DictSet(s1.a2b, old_action_with_nb,
                                                     ListRemove(s1.a2b[old_action_with_nb], nb))],
                               name, nb, old_binding, old_action_with_nb)
             ELSE EditReplace(st, name, nb, old_binding, old_action_with_nb)

(***************************************************************************)
(* clear_accel                                                             *)
(***************************************************************************)
\* clear_accel as it would be if it took the binding out of binding_to_action
\* before it took it out of the list
clear_accel_PopsFirst(st, name, binding) ==
    IF name \notin BINDING_INFO THEN Result(st, "AssertionError", None, "assert")
    ELSE LET ob == accelerator_parse(binding)
             s0 == [st EXCEPT !.a2b = DefaultDictTouch(st.a2b, name)]
         IN  IF ob \notin DOMAIN s0.b2a THEN Result(s0, "KeyError", None, "pop")
             ELSE LET s1 == [s0 EXCEPT !.b2a = DictPop(s0.b2a, ob)]
                  IN  IF ~Contains(s1.a2b[name], ob) THEN Result(s1, "ValueError", None, "remove")
                      ELSE Result(save([s1 EXCEPT !.a2b = DictSet(s1.a2b, name,
                                                               ListRemove(s1.a2b[name], ob))]),
                                  "ok", None, "save")

\* lines 156-163
clear_accel(st, name, binding) ==
    IF name \notin BINDING_INFO THEN Result(st, "AssertionError", None, "assert")
    ELSE LET ob == accelerator_parse(binding)
             s0 == [st EXCEPT !.a2b = DefaultDictTouch(st.a2b, name)]
         IN  IF ~Contains(s0.a2b[name], ob) THEN Result(s0, "ValueError", None, "remove")
             ELSE LET s1 == [s0 EXCEPT !.a2b = DictSet(s0.a2b, name, ListRemove(s0.a2b[name], ob))]
                  IN  IF ob \notin DOMAIN s1.b2a THEN Result(s1, "KeyError", None, "pop")
                      ELSE Result(save([s1 EXCEPT !.b2a = DictPop(s1.b2a, ob)]), "ok", None, "save")

(***************************************************************************)
(* get_bindings_for_action                                                 *)
(***************************************************************************)
\* lines 228-230: the lookup on the defaultdict inserts a missing name
get_bindings_for_action(st, name) ==
    LET s1 == [st EXCEPT !.a2b = DefaultDictTouch(st.a2b, name)]
    IN  Result(s1, "ok", s1.a2b[name], "return")

(***************************************************************************)
(* execute                                                                 *)
(***************************************************************************)
RECURSIVE BitAnd(_, _)
BitAnd(x, y) ==
    IF x = 0 \/ y = 0 THEN 0
    ELSE (x % 2) * (y % 2) + 2 * BitAnd(x \div 2, y \div 2)

\* the key-press events the window delivers: (keyval, modifier state)
KeyEvents == {97, 98} \X {0, 4, 16, 20}

\* lines 171-173, 181-183, 187-190: look the callback up, stop the event, call
Invoke(st, action, tier) ==
    IF action \in DOMAIN st.a2c
    THEN [tier |-> tier, action |-> action, outcome |-> "invoked",
          callback |-> st.a2c[action], handled |-> TRUE]
    ELSE [tier |-> tier, action |-> action, outcome |-> "KeyError",
          callback |-> None, handled |-> FALSE]

\* line 180: the stored bindings the second tier accepts
FuzzyMatches(st, keybinding) ==
    {sb \in DOMAIN st.b2a : sb[1] = keybinding[1] /\ BitAnd(sb[2], keybinding[2]) # 0}

\* execute as it would be without its third tier
execute_NoBareTier(st, keybinding) ==
    IF keybinding \in DOMAIN st.b2a
    THEN {Invoke(st, st.b2a[keybinding], "exact")}
    ELSE IF FuzzyMatches(st, keybinding) # {}
    THEN {Invoke(st, st.b2a[sb], "fuzzy") : sb \in FuzzyMatches(st, keybinding)}
    ELSE {[tier |-> "none", action |-> None, outcome |-> "noop",
           callback |-> None, handled |-> FALSE]}

\* lines 169-190: every way the call can go; the dict's iteration order picks
\* among the second tier's matches
execute(st, keybinding) ==
    IF keybinding \in DOMAIN st.b2a
    THEN {Invoke(st, st.b2a[keybinding], "exact")}
    ELSE IF FuzzyMatches(st, keybinding) # {}
    THEN {Invoke(st, st.b2a[sb], "fuzzy") : sb \in FuzzyMatches(st, keybinding)}
    ELSE IF <<keybinding[1], 0>> \in DOMAIN st.b2a
    THEN {Invoke(st, st.b2a[<<keybinding[1], 0>>], "bare")}
    ELSE {[tier |-> "none", action |-> None, outcome |-> "noop",
           callback |-> None, handled |-> FALSE]}

(***************************************************************************)
(* The calls as steps.                                                     *)
(***************************************************************************)
\* last: the call, the action name it was given (for execute: the action it
\* resolved to), how it ended, the action name or callback it produced, and
\* the branch it took (for execute: the tier that matched)
Call(op, name, outcome, ret, path) ==
    [op |-> op, name |-> name, outcome |-> outcome, ret |-> ret, path |-> path]

State == [a2c |-> action_to_callback, a2b |-> action_to_bindings,
          b2a |-> binding_to_action, disk |-> disk]

Becomes(st) ==
    /\ action_to_callback' = st.a2c
    /\ action_to_bindings' = st.a2b
    /\ binding_to_action' = st.b2a
    /\ disk' = st.disk

\* the list of name; empty for a name that has none
ListOf(st, name) == IF name \in DOMAIN st.a2b THEN st.a2b[name] ELSE <<>>

\* the argument lists register is called with
DefaultBindings == SeqsUpTo(BindingStrings, MaxDefaults)

\* one more call on the constructed manager
Called == _manager /\ calls < MaxCalls /\ calls' = calls + 1

Init ==
    /\ _manager = FALSE
    /\ action_to_callback = EmptyDict
    /\ action_to_bindings = EmptyDict
    /\ binding_to_action = EmptyDict
    /\ disk \in Documents \cup NotObjects \cup {Unreadable}
    /\ last = Call("none", None, "none", None, "")
    /\ calls = 0

\* lines 235-242: the first call constructs the manager, later calls return it;
\* when the constructor raises, line 241 assigns nothing and the object is lost
keybinding_manager ==
    IF _manager
    THEN /\ Called
         /\ UNCHANGED <<_manager, action_to_callback, action_to_bindings, binding_to_action, disk>>
         /\ last' = Call("keybinding_manager", None, "existing", None, "return")
    ELSE \E order \in Orders(BINDING_INFO) :
            LET r == _initialize(disk, order)
            IN  /\ _manager' = (r.outcome = "ok")
                /\ IF r.outcome = "ok"
                   THEN Becomes(r.st)
                   ELSE UNCHANGED <<action_to_callback, action_to_bindings,
                                    binding_to_action, disk>>
                /\ last' = Call("keybinding_manager", None,
                                IF r.outcome = "ok" THEN "constructed" ELSE r.outcome,
                                None, "construct")
                /\ UNCHANGED calls

Register ==
    /\ Called
    /\ \E name \in ActionNames, bindings \in DefaultBindings, callback \in Callbacks :
          LET r == register(State, name, bindings, callback)
          IN  /\ Becomes(r.st)
              /\ last' = Call("register", name, r.outcome, r.ret, r.path)
    /\ UNCHANGED _manager

EditAccel ==
    /\ Called
    /\ \E name \in ActionNames, new_binding \in BindingStrings,
          old_binding \in BindingStrings \cup {""} :
          LET r == edit_accel(State, name, new_binding, old_binding)
          IN  /\ Becomes(r.st)
              /\ last' = Call("edit_accel", name, r.outcome, r.ret, r.path)
    /\ UNCHANGED _manager

ClearAccel ==
    /\ Called
    /\ \E name \in ActionNames, binding \in BindingStrings :
          LET r == clear_accel(State, name, binding)
          IN  /\ Becomes(r.st)
              /\ last' = Call("clear_accel", name, r.outcome, r.ret, r.path)
    /\ UNCHANGED _manager

Execute ==
    /\ Called
    /\ \E keybinding \in KeyEvents :
          \E r \in execute(State, keybinding) :
              last' = Call("execute", r.action, r.outcome, r.callback, r.tier)
    /\ UNCHANGED <<_manager, action_to_callback, action_to_bindings, binding_to_action, disk>>

GetBindingsForAction ==
    /\ Called
    /\ \E name \in ActionNames :
          LET r == get_bindings_for_action(State, name)
          IN  /\ Becomes(r.st)
              /\ last' = Call("get_bindings_for_action", name, r.outcome, None, r.path)
    /\ UNCHANGED _manager

Save ==
    /\ Called
    /\ Becomes(save(State))
    /\ last' = Call("save", None, "ok", None, "save")
    /\ UNCHANGED _manager

Next ==
    \/ keybinding_manager
    \/ Register
    \/ EditAccel
    \/ ClearAccel
    \/ Execute
    \/ GetBindingsForAction
    \/ Save

Spec == Init /\ [][Next]_vars

\* the states reached by load, register, edit_accel and clear_accel alone
NextRegistry ==
    \/ keybinding_manager
    \/ Register
    \/ EditAccel
    \/ ClearAccel

SpecRegistry == Init /\ [][NextRegistry]_vars

\* the bindings a file lists, in the order of names
RECURSIVE Listed(_, _)
Listed(doc, names) ==
    IF names = {} THEN <<>>
    ELSE LET n == CHOOSE x \in names : TRUE
         IN  ParseAll(doc[n]) \o Listed(doc, names \ {n})

\* no entry of l occurs twice
NoDuplicates(l) == \A i, j \in 1..Len(l) : i # j => l[i] # l[j]

\* the same states, when the file lists no binding twice at the start
InitNoTwice == Init /\ NoDuplicates(Listed(disk.doc, DOMAIN disk.doc))

SpecNoTwice == InitNoTwice /\ [][NextRegistry]_vars

TypeOK ==
    /\ _manager \in BOOLEAN
    /\ DOMAIN action_to_callback \subseteq ActionNames
    /\ \A b \in DOMAIN binding_to_action : binding_to_action[b] \in ActionNames

(***************************************************************************)
(* Properties.                                                             *)
(***************************************************************************)
\* the bindings the strings of the model parse to
Bindings == {accelerator_parse(str) : str \in BindingStrings}

\* the two views of a state agree: b maps to A exactly when b is in A's list
Agree(st) ==
    \A b \in Bindings, A \in ActionNames :
        (b \in DOMAIN st.b2a /\ st.b2a[b] = A) <=> Contains(ListOf(st, A), b)

\* C1: in every state reached by load and any calls of register, edit_accel
\* and clear_accel, failing calls included, binding_to_action[b] = A if and
\* only if b occurs in action_to_bindings[A].
C1_ViewsAgree == Agree(State)

\* C2: when b maps to A and register is called for another action B whose
\* adopted bindings include b, b still maps to A after the call and the event
\* b invokes A's callback, never B's.
C2_FirstClaimWins ==
    _manager =>
        \A name \in BINDING_INFO, bindings \in DefaultBindings, callback \in Callbacks :
            LET r == register(State, name, bindings, callback)
                adopted == RegisterKeycodes(State, name, bindings)
            IN  \A b \in DOMAIN binding_to_action :
                    (binding_to_action[b] # name /\ Contains(adopted, b)) =>
                        /\ b \in DOMAIN r.st.b2a
                        /\ r.st.b2a[b] = binding_to_action[b]
                        /\ \A x \in execute(r.st, b) :
                               x.outcome = "invoked" /\ x.action = binding_to_action[b]

RECURSIVE Unowned(_, _)
Unowned(keycodes, owned) ==
    IF keycodes = <<>> THEN <<>>
    ELSE IF Head(keycodes) \in owned THEN Unowned(Tail(keycodes), owned)
    ELSE <<Head(keycodes)>> \o Unowned(Tail(keycodes), owned \cup {Head(keycodes)})

C4_UnknownActionRejected ==
    _manager =>
        /\ \A name \in ActionNames \ BINDING_INFO :
              /\ \A bindings \in DefaultBindings, callback \in Callbacks :
                     LET r == register(State, name, bindings, callback)
                     IN  r.outcome = "AssertionError" /\ r.st = State
              /\ \A new_binding \in BindingStrings, old_binding \in BindingStrings \cup {""} :
                     LET r == edit_accel(State, name, new_binding, old_binding)
                     IN  r.outcome = "AssertionError" /\ r.st = State
              /\ \A binding \in BindingStrings :
                     LET r == clear_accel(State, name, binding)
                     IN  r.outcome = "AssertionError" /\ r.st = State
              /\ LET r == get_bindings_for_action(State, name)
                 IN  r.outcome = "AssertionError" /\ r.st = State
        /\ DOMAIN action_to_bindings \subseteq BINDING_INFO
        /\ DOMAIN action_to_callback \subseteq BINDING_INFO
        /\ \A b \in DOMAIN binding_to_action : binding_to_action[b] \in BINDING_INFO

\* C5: clear_accel(name, b) for a catalog name whose list does not contain b
\* fails and leaves both views and the file as they were; nothing is saved.
C5_ClearNotBoundLeavesState ==
    _manager =>
        \A name \in BINDING_INFO, binding \in BindingStrings :
            LET r == clear_accel(State, name, binding)
            IN  ~Contains(action_to_bindings[name], accelerator_parse(binding)) =>
                    r.outcome = "ValueError" /\ r.st = State

\* a clear_accel call has failed on a binding its action does not list, while
\* another action owns a binding
C5_Witness ==
    /\ last.op = "clear_accel"
    /\ last.outcome = "ValueError"
    /\ \E b \in DOMAIN binding_to_action : binding_to_action[b] # last.name

\* C6: for every catalog name, every binding ob at index i of its list and
\* every new binding nb (nb = ob and nb elsewhere in the list included),
\* edit_accel(name, nb, ob) succeeds and leaves nb at index i, ob no longer
\* bound (unless it is nb) and nb mapped to name.
C6_EditPreservesPosition ==
    _manager =>
        \A name \in BINDING_INFO, new_binding \in BindingStrings, old_binding \in BindingStrings :
            LET r == edit_accel(State, name, new_binding, old_binding)
                nb == accelerator_parse(new_binding)
                ob == accelerator_parse(old_binding)
            IN  \A i \in 1..Len(action_to_bindings[name]) :
                    action_to_bindings[name][i] = ob =>
                        /\ r.outcome = "ok"
                        /\ Len(r.st.a2b[name]) >= i
                        /\ r.st.a2b[name][i] = nb
                        /\ nb # ob => (ob \notin DOMAIN r.st.b2a /\ ~Contains(r.st.a2b[name], ob))
                        /\ nb \in DOMAIN r.st.b2a
                        /\ r.st.b2a[nb] = name

RECURSIVE Without(_, _)
Without(l, x) ==
    IF l = <<>> THEN <<>>
    ELSE IF Head(l) = x THEN Without(Tail(l), x)
    ELSE <<Head(l)>> \o Without(Tail(l), x)

C9_SaveOnEdit ==
    _manager =>
        /\ \A name \in ActionNames, new_binding \in BindingStrings,
              old_binding \in BindingStrings \cup {""} :
               LET r == edit_accel(State, name, new_binding, old_binding)
               IN  (r.st.a2b # action_to_bindings \/ r.st.b2a # binding_to_action) =>
                       r.st.disk = [readable |-> TRUE, top |-> "object", doc |-> Serialize(r.st.a2b)]
        /\ \A name \in ActionNames, binding \in BindingStrings :
               LET r == clear_accel(State, name, binding)
               IN  (r.st.a2b # action_to_bindings \/ r.st.b2a # binding_to_action) =>
                       r.st.disk = [readable |-> TRUE, top |-> "object", doc |-> Serialize(r.st.a2b)]

\* C10: steps of register, execute, get_bindings_for_action and the load in
\* keybinding_manager leave the file unchanged, and a step of execute leaves
\* the three dictionaries unchanged as well.
C10_FileWrittenOnlyByEdits ==
    [][/\ last'.op \in {"register", "execute", "get_bindings_for_action", "keybinding_manager"}
          => disk' = disk
       /\ last'.op = "execute"
          => /\ action_to_bindings' = action_to_bindings
             /\ binding_to_action' = binding_to_action
             /\ action_to_callback' = action_to_callback]_vars

\* a register call has seeded its action, and the file does not hold the
\* bindings the action now has
C10_Witness ==
    /\ last.op = "register"
    /\ last.outcome = "ok"
    /\ action_to_bindings[last.name] # <<>>
    /\ disk # [readable |-> TRUE, top |-> "object", doc |-> Serialize(action_to_bindings)]

\* C11: in every state reached by load, register, edit_accel and clear_accel,
\* save followed by a load into a new manager gives an action_to_bindings
\* equal to the one saved: the same keys, and for each key the same bindings
\* in the same order.
C11_RoundTrip ==
    _manager =>
        \A order \in Orders(BINDING_INFO) :
            LET r == _initialize(save(State).disk, order)
            IN  /\ r.outcome = "ok"
                /\ DOMAIN r.st.a2b = DOMAIN action_to_bindings
                /\ \A a \in DOMAIN action_to_bindings : r.st.a2b[a] = action_to_bindings[a]

\* an edit has saved a list of two bindings, one of which the file spells
\* otherwise than the caller did
C11_Witness ==
    /\ last.op = "edit_accel"
    /\ last.outcome = "ok"
    /\ disk = save(State).disk
    /\ Len(action_to_bindings[last.name]) >= 2
    /\ Contains(action_to_bindings[last.name], accelerator_parse("<Ctrl>a"))
    /\ \A i \in 1..Len(disk.doc[last.name]) : disk.doc[last.name][i] # "<Ctrl>a"

\* a stored binding matches the event in the second tier
Fuzzy(ev) ==
    \E sb \in DOMAIN binding_to_action : sb[1] = ev[1] /\ BitAnd(sb[2], ev[2]) # 0

\* C12: execute tries the three tiers in order and invokes one callback: the
\* owner of (k, m) when (k, m) is bound; otherwise the owner of a stored (k, s)
\* with s & m # 0 when there is one; otherwise the owner of (k, 0) when bound.
C12_TiersInOrder ==
    _manager =>
        \A ev \in KeyEvents :
            \A r \in execute(State, ev) :
                IF ev \in DOMAIN binding_to_action
                THEN /\ r.outcome = "invoked"
                     /\ r.action = binding_to_action[ev]
                     /\ r.callback = DictGet(action_to_callback, r.action)
                ELSE IF Fuzzy(ev)
                THEN /\ r.outcome = "invoked"
                     /\ \E sb \in DOMAIN binding_to_action :
                            /\ sb[1] = ev[1]
                            /\ BitAnd(sb[2], ev[2]) # 0
                            /\ r.action = binding_to_action[sb]
                     /\ r.callback = DictGet(action_to_callback, r.action)
                ELSE IF <<ev[1], 0>> \in DOMAIN binding_to_action
                THEN /\ r.outcome = "invoked"
                     /\ r.action = binding_to_action[<<ev[1], 0>>]
                     /\ r.callback = DictGet(action_to_callback, r.action)
                ELSE r.outcome = "noop"

\* C13: when (k, 0) is bound to a registered action A, execute on an event
\* (k, m) with m # 0 that has no exact match and no stored (k, s) with
\* s & m # 0 invokes A's callback and marks the event handled.
C13_BareFallback ==
    _manager =>
        \A ev \in KeyEvents :
            (/\ ev[2] # 0
             /\ <<ev[1], 0>> \in DOMAIN binding_to_action
             /\ binding_to_action[<<ev[1], 0>>] \in DOMAIN action_to_callback
             /\ ev \notin DOMAIN binding_to_action
             /\ ~Fuzzy(ev))
            => \A r \in execute(State, ev) :
                   /\ r.outcome = "invoked"
                   /\ r.action = binding_to_action[<<ev[1], 0>>]
                   /\ r.callback = action_to_callback[r.action]
                   /\ r.handled

\* an execute call has invoked, through the third tier, the callback of the
\* registered action that owns the bare key
C13_Witness ==
    /\ last.op = "execute"
    /\ last.path = "bare"
    /\ last.outcome = "invoked"
    /\ last.ret = action_to_callback[last.name]
    /\ binding_to_action[<<97, 0>>] = last.name

\* C14: the event is marked handled if and only if a callback is invoked:
\* when no tier matches, execute invokes nothing, returns nothing and does not
\* mark the event handled; when a tier matches, the event is marked handled.
C14_HandledIffInvoked ==
    _manager =>
        \A ev \in KeyEvents :
            \A r \in execute(State, ev) :
                LET matches == \/ ev \in DOMAIN binding_to_action
                               \/ Fuzzy(ev)
                               \/ <<ev[1], 0>> \in DOMAIN binding_to_action
                IN  /\ r.handled <=> r.outcome = "invoked"
                    /\ ~matches => (r.outcome = "noop" /\ r.callback = None /\ ~r.handled)
                    /\ matches => r.handled

\* C15: register for an action whose list is not empty ignores the defaults
\* and leaves action_to_bindings and binding_to_action unchanged; only
\* action_to_callback[name] changes, to the callback supplied.
C15_RegisterKeepsStored ==
    _manager =>
        \A name \in BINDING_INFO, bindings \in DefaultBindings, callback \in Callbacks :
            LET r == register(State, name, bindings, callback)
            IN  action_to_bindings[name] # <<>> =>
                    /\ r.outcome = "ok"
                    /\ r.st.a2b = action_to_bindings
                    /\ r.st.b2a = binding_to_action
                    /\ r.st.a2c = DictSet(action_to_callback, name, callback)
                    /\ r.st.disk = disk

\* C16: load never fails and admits catalog actions only: with a missing or
\* corrupt file, construction ends with every catalog action mapped to an
\* empty list and an empty binding_to_action; with a readable document, names
\* outside the catalog get no entry in either view, catalog actions absent
\* from it get an empty list, and each catalog action present gets its stored
\* bindings in stored order.
C16_LoadNeverFails ==
    (last.op = "keybinding_manager" /\ calls = 0) =>
        /\ last.outcome = "constructed"
        /\ _manager
        /\ DOMAIN action_to_bindings = BINDING_INFO
        /\ \A b \in DOMAIN binding_to_action : binding_to_action[b] \in BINDING_INFO
        /\ IF disk.readable /\ disk.top = "object"
           THEN \A a \in BINDING_INFO :
                    action_to_bindings[a] = IF a \in DOMAIN disk.doc
                                            THEN ParseAll(disk.doc[a])
                                            ELSE <<>>
           ELSE /\ \A a \in BINDING_INFO : action_to_bindings[a] = <<>>
                /\ binding_to_action = EmptyDict

\* the strings gtk.accelerator_parse cannot parse
Malformed == {str \in BindingStrings : accelerator_parse(str) = <<0, 0>>}

\* C17: register, edit_accel and clear_accel given a string that does not
\* parse (as a default, as new_binding or as old_binding) fail, and leave both
\* views and the file unchanged.
C17_MalformedRejected ==
    _manager =>
        \A name \in BINDING_INFO :
            /\ \A bindings \in DefaultBindings, callback \in Callbacks :
                   LET r == register(State, name, bindings, callback)
                   IN  (/\ action_to_bindings[name] = <<>>
                        /\ \E i \in 1..Len(bindings) : bindings[i] \in Malformed)
                       => (r.outcome # "ok" /\ r.st = State)
            /\ \A new_binding \in BindingStrings, old_binding \in BindingStrings \cup {""} :
                   LET r == edit_accel(State, name, new_binding, old_binding)
                   IN  (new_binding \in Malformed \/ old_binding \in Malformed)
                       => (r.outcome # "ok" /\ r.st = State)
            /\ \A binding \in Malformed :
                   LET r == clear_accel(State, name, binding)
                   IN  r.outcome # "ok" /\ r.st = State

\* C18: edit_accel(name, nb, ob) with a non-empty ob that is not bound to name
\* (unbound, owned by another action, or equal to nb) fails and leaves both
\* views and the file as they were; the previous owner of nb keeps nb.
C18_FailingEditAtomic ==
    _manager =>
        \A name \in BINDING_INFO, new_binding \in BindingStrings, old_binding \in BindingStrings :
            LET r == edit_accel(State, name, new_binding, old_binding)
                nb == accelerator_parse(new_binding)
                ob == accelerator_parse(old_binding)
            IN  (DictGet(binding_to_action, ob) # name \/ ob = nb)
                => (r.outcome # "ok" /\ r.st = State)

\* C19: in every state reached by load, register, edit_accel and clear_accel,
\* every action that owns a binding has a callback, so execute on any event
\* invokes a callback or does nothing and never fails on the callback lookup.
C19_OwnersRegistered ==
    _manager =>
        /\ \A b \in DOMAIN binding_to_action :
               binding_to_action[b] \in DOMAIN action_to_callback
        /\ \A ev \in KeyEvents :
               \A r \in execute(State, ev) : r.outcome \in {"invoked", "noop"}

\* C20: when the file lists no binding twice at the start, then after any
\* calls of register, edit_accel and clear_accel, failing ones included, no
\* binding occurs twice in one action's list or in the lists of two actions.
C20_NoBindingTwice ==
    /\ \A a \in DOMAIN action_to_bindings : NoDuplicates(action_to_bindings[a])
    /\ \A a1, a2 \in DOMAIN action_to_bindings :
           a1 # a2 => \A b \in Bindings :
                          ~(Contains(action_to_bindings[a1], b) /\ Contains(action_to_bindings[a2], b))

====
